---------------------------- MODULE Spec2Model ----------------------------
(***************************************************************************)
(* TOON serialization of Pydantic models (src/Toon/pydantic_toon.py).      *)
(*                                                                         *)
(* Text is a sequence of one-character strings, so that `in`, replace,     *)
(* strip, join and split are computed character by character.  A value is  *)
(* a record tagged by "kind"; a model instance names its class, and the    *)
(* class gives the declared field order (obj.model_fields).                *)
(***************************************************************************)
EXTENDS Integers, Sequences, FiniteSets, TLC

VARIABLES data, out, raised, called, patched, last

vars == <<data, out, raised, called, patched, last>>

-----------------------------------------------------------------------------
(* Bounds of the explored inputs.                                          *)

MaxStrLen == 3

MaxRows == 2

MaxItems == 2

-----------------------------------------------------------------------------
(* Characters and Python's str primitives.                                 *)

NL == "\n"

COMMA == ","

QUOTE == "\""

BSLASH == "\\"

SPACE == " "

Chars == {"a", COMMA, NL, SPACE, QUOTE, BSLASH}

\* the characters str.strip() removes, among Chars
Whitespace == {SPACE, NL}

\* c in s
Contains(s, c) == \E i \in 1..Len(s) : s[i] = c

RECURSIVE Concat(_)
Concat(parts) ==
    IF parts = <<>> THEN <<>> ELSE Head(parts) \o Concat(Tail(parts))

\* sep.join(parts)
RECURSIVE Join(_, _)
Join(sep, parts) ==
    IF parts = <<>> THEN <<>>
    ELSE IF Len(parts) = 1 THEN parts[1]
    ELSE parts[1] \o sep \o Join(sep, Tail(parts))

\* s.replace(old, new) for a one-character old
Replace(s, old, new) ==
    Concat([i \in 1..Len(s) |-> IF s[i] = old THEN new ELSE <<s[i]>>])

RECURSIVE LStrip(_)
LStrip(s) ==
    IF s # <<>> /\ Head(s) \in Whitespace THEN LStrip(Tail(s)) ELSE s

RECURSIVE RStrip(_)
RStrip(s) ==
    IF s # <<>> /\ s[Len(s)] \in Whitespace
    THEN RStrip(SubSeq(s, 1, Len(s) - 1)) ELSE s

\* s.strip()
Strip(s) == RStrip(LStrip(s))

\* "  " * indent_level
RECURSIVE Indent(_)
Indent(indent_level) ==
    IF indent_level = 0 THEN <<>>
    ELSE <<SPACE, SPACE>> \o Indent(indent_level - 1)

Digits == <<"0", "1", "2", "3", "4", "5", "6", "7", "8", "9">>

RECURSIVE NatStr(_)
NatStr(n) ==
    IF n < 10 THEN <<Digits[n + 1]>>
    ELSE NatStr(n \div 10) \o <<Digits[(n % 10) + 1]>>

\* str(n) for an int
IntStr(n) == IF n < 0 THEN <<"-">> \o NatStr(-n) ELSE NatStr(n)

-----------------------------------------------------------------------------
(* Values.                                                                 *)

PyNone == [kind |-> "none"]

PyBool(b) == [kind |-> "bool", b |-> b]

PyInt(n) == [kind |-> "int", n |-> n]

\* float, Decimal: str(value) is the host's
PyNum(repr) == [kind |-> "num", repr |-> repr]

\* datetime, date: value.isoformat() is the host's
PyTemporal(iso) == [kind |-> "temporal", iso |-> iso]

PyStr(s) == [kind |-> "str", s |-> s]

PyModel(cls, vals) == [kind |-> "model", cls |-> cls, vals |-> vals]

PyList(items) == [kind |-> "list", items |-> items]

PyDict(keys, vals) == [kind |-> "dict", keys |-> keys, vals |-> vals]

\* any other object (tuple, set, enum...): str(value) is the host's
PyOther(repr) == [kind |-> "other", text |-> repr]

\* isinstance(value, BaseModel)
IsModel(value) == value.kind = "model"

-----------------------------------------------------------------------------
(* Model classes: the declared field order of each class and whether the   *)
(* class derives from ToonMixin.                                           *)

f_v == <<"v">>

f_id == <<"i", "d">>

f_name == <<"n", "a", "m", "e">>

f_metadata == <<"m", "e", "t", "a", "d", "a", "t", "a">>

Classes == {"One", "Meta", "Pair", "Swap", "Unmixed"}

\* cls.model_fields, in declared order
ModelFields(cls) ==
    CASE cls = "One" -> <<f_v>>
      [] cls = "Meta" -> <<f_metadata>>
      [] cls = "Pair" -> <<f_id, f_name>>
      [] cls = "Swap" -> <<f_name, f_id>>
      [] cls = "Unmixed" -> <<f_id, f_name>>

\* class X(BaseModel, ToonMixin)
HasMixin(cls) == cls # "Unmixed"

\* getattr(obj, field_name)
GetAttr(obj, field_name) ==
    LET fs == ModelFields(obj.cls)
        i == CHOOSE j \in 1..Len(fs) : fs[j] = field_name
    IN obj.vals[i]

\* value.model_dump(): models become dicts, recursively through lists and
\* dicts; every other value is kept
RECURSIVE ModelDump(_)
ModelDump(value) ==
    CASE value.kind = "model" ->
            PyDict(ModelFields(value.cls),
                 [i \in 1..Len(value.vals) |-> ModelDump(value.vals[i])])
      [] value.kind = "list" ->
            PyList([i \in 1..Len(value.items) |-> ModelDump(value.items[i])])
      [] value.kind = "dict" ->
            PyDict(value.keys,
                 [i \in 1..Len(value.vals) |-> ModelDump(value.vals[i])])
      [] OTHER -> value

\* d.get(key)
DictGet(d, key) ==
    IF \E i \in 1..Len(d.keys) : d.keys[i] = key
    THEN d.vals[CHOOSE i \in 1..Len(d.keys) : d.keys[i] = key]
    ELSE PyNone

-----------------------------------------------------------------------------
(* ToonSerializer.                                                         *)

\* NeedsQuote without the test of surrounding whitespace
NeedsQuoteNoStrip(value) == Contains(value, COMMA) \/ Contains(value, NL)

\* ',' in value or '\n' in value or value.strip() != value
NeedsQuote(value) ==
    Contains(value, COMMA) \/ Contains(value, NL) \/ Strip(value) # value

\* Escaped with the two replacements in the other order
EscapedQuotesFirst(value) ==
    Replace(Replace(value, QUOTE, <<BSLASH, QUOTE>>), BSLASH, <<BSLASH, BSLASH>>)

\* Escaped that leaves the backslashes as they are
EscapedQuotesOnly(value) == Replace(value, QUOTE, <<BSLASH, QUOTE>>)

\* value.replace('\\', '\\\\').replace('"', '\\"')
Escaped(value) ==
    Replace(Replace(value, BSLASH, <<BSLASH, BSLASH>>), QUOTE, <<BSLASH, QUOTE>>)

\* the str branch of _serialize_value
SerializeStr(value) ==
    IF NeedsQuote(value) THEN <<QUOTE>> \o Escaped(value) \o <<QUOTE>>
    ELSE value

\* all(isinstance(item, BaseModel) for item in value)
AllModels(items) == \A i \in 1..Len(items) : IsModel(items[i])

\* one field of _serialize_object: multi-line values are appended right
\* after the colon, single-line values after a colon and a space
FieldLine(indent, field_name, serialized_val) ==
    IF Contains(serialized_val, NL)
    THEN indent \o field_name \o <<":">> \o serialized_val
    ELSE indent \o field_name \o <<":", SPACE>> \o serialized_val

\* the lines one key of a dict adds in _serialize_value
DictKeyLines(indent, key, serialized_val) ==
    IF Contains(serialized_val, NL)
    THEN << indent \o <<SPACE, SPACE>> \o key \o <<":">>,
            indent \o <<SPACE, SPACE, SPACE, SPACE>> \o serialized_val >>
    ELSE << indent \o <<SPACE, SPACE>> \o key \o <<":", SPACE>> \o serialized_val >>

\* header = f"{indent}[{len(models)}]{{{','.join(fields)}}}:"
Header(indent, n, fields) ==
    indent \o <<"[">> \o IntStr(n) \o <<"]", "{">> \o Join(<<COMMA>>, fields)
           \o <<"}", ":">>

\* row = f"{indent}  {','.join(values)}"
Row(indent, values) == indent \o <<SPACE, SPACE>> \o Join(<<COMMA>>, values)

\* isinstance(value, bool)
IsBool(value) == value.kind = "bool"

\* isinstance(value, (int, float, Decimal)); bool is a subclass of int
IsNumber(value) == value.kind \in {"bool", "int", "num"}

\* str(value) of None, a bool or a number
PyStrOf(value) ==
    CASE value.kind = "none" -> <<"N", "o", "n", "e">>
      [] value.kind = "bool" ->
            IF value.b THEN <<"T", "r", "u", "e">> ELSE <<"F", "a", "l", "s", "e">>
      [] value.kind = "int" -> IntStr(value.n)
      [] value.kind = "num" -> value.repr

\* Scalar without the test for None: None reaches the str(value) fallback
ScalarNoNoneTest(value) ==
    IF IsBool(value) THEN (IF value.b THEN <<"t", "r", "u", "e">>
                           ELSE <<"f", "a", "l", "s", "e">>)
    ELSE PyStrOf(value)

\* Scalar with the number test before the bool test
ScalarNumberFirst(value) ==
    IF value.kind = "none" THEN <<"n", "u", "l", "l">>
    ELSE IF IsNumber(value) THEN PyStrOf(value)
    ELSE (IF value.b THEN <<"t", "r", "u", "e">> ELSE <<"f", "a", "l", "s", "e">>)

\* the first three tests of _serialize_value, in their order: None, bool, number
Scalar(value) ==
    IF value.kind = "none" THEN <<"n", "u", "l", "l">>
    ELSE IF IsBool(value) THEN (IF value.b THEN <<"t", "r", "u", "e">>
                                ELSE <<"f", "a", "l", "s", "e">>)
    ELSE PyStrOf(value)

RECURSIVE SerializeValue(_, _), SerializeObject(_, _), SerializeListOfModels(_, _)

\* ToonSerializer._serialize_value
SerializeValue(value, indent_level) ==
    LET indent == Indent(indent_level) IN
    CASE value.kind = "none" \/ IsNumber(value) -> Scalar(value)
      [] value.kind = "temporal" -> value.iso
      [] value.kind = "str" -> SerializeStr(value.s)
      [] value.kind = "model" -> SerializeObject(value, indent_level)
      [] value.kind = "list" ->
            IF value.items = <<>> THEN <<"[", "]">>
            ELSE IF AllModels(value.items)
            THEN <<NL>> \o SerializeListOfModels(value.items, indent_level)
            ELSE <<"[">>
                 \o Join(<<COMMA>>, [i \in 1..Len(value.items) |->
                                        SerializeValue(value.items[i], 0)])
                 \o <<"]">>
      [] value.kind = "dict" ->
            Join(<<NL>>,
                 Concat([i \in 1..Len(value.keys) |->
                    DictKeyLines(indent, value.keys[i],
                                 SerializeValue(value.vals[i], indent_level + 1))]))
      [] OTHER -> value.text

\* ToonSerializer._serialize_object
SerializeObject(obj, indent_level) ==
    LET indent == Indent(indent_level)
        fields == ModelFields(obj.cls)
    IN Join(<<NL>>,
            [i \in 1..Len(fields) |->
                FieldLine(indent, fields[i],
                          SerializeValue(GetAttr(obj, fields[i]), indent_level + 1))])

\* ToonSerializer._serialize_list_of_models
SerializeListOfModels(models, indent_level) ==
    IF models = <<>> THEN <<"[", "]">>
    ELSE
      LET indent == Indent(indent_level)
          fields == ModelDump(models[1]).keys
          rows == [m \in 1..Len(models) |->
                     LET dumped == ModelDump(models[m]) IN
                     Row(indent, [f \in 1..Len(fields) |->
                                    SerializeValue(DictGet(dumped, fields[f]), 0)])]
      IN Join(<<NL>>, <<Header(indent, Len(models), fields)>> \o rows)

\* what a call returns: the text, or the exception it raises
Returned(text) == [raised |-> "none", text |-> text]

Raised(exc) == [raised |-> exc, text |-> <<>>]

\* IsListOfModels that also rejects the empty list
NonEmptyListOfModels(items) == items # <<>> /\ AllModels(items)

\* serialize's test of a list: all(isinstance(item, BaseModel) for item in data)
IsListOfModels(items) == AllModels(items)

\* Serialize that encodes a list with a non-model element as a flat list
SerializeFlatFallback(value) ==
    IF value.kind = "list"
    THEN IF IsListOfModels(value.items)
         THEN Returned(SerializeListOfModels(value.items, 0))
         ELSE Returned(SerializeValue(value, 0))
    ELSE IF IsModel(value)
         THEN Returned(SerializeObject(value, 0))
         ELSE Raised("ValueError")

\* Serialize that encodes any other value instead of raising
SerializeLenient(value) ==
    IF value.kind = "list"
    THEN IF IsListOfModels(value.items)
         THEN Returned(SerializeListOfModels(value.items, 0))
         ELSE Raised("ValueError")
    ELSE IF IsModel(value)
         THEN Returned(SerializeObject(value, 0))
         ELSE Returned(SerializeValue(value, 0))

\* ToonSerializer.serialize, indent_level = 0
Serialize(value) ==
    IF value.kind = "list"
    THEN IF IsListOfModels(value.items)
         THEN Returned(SerializeListOfModels(value.items, 0))
         ELSE Raised("ValueError")
    ELSE IF IsModel(value)
         THEN Returned(SerializeObject(value, 0))
         ELSE Raised("ValueError")

-----------------------------------------------------------------------------
(* Public entry points.                                                    *)

\* obj.model_dump_toon(): ToonMixin.model_dump_toon, or the lambda that
\* _patch_basemodel puts on BaseModel; without either the attribute is missing
\* ModelDumpToon whose patched method encodes one level deeper
ModelDumpToonPatchedDeeper(obj, isPatched) ==
    IF isPatched THEN Returned(SerializeObject(obj, 1))
    ELSE IF HasMixin(obj.cls) THEN Serialize(obj)
    ELSE Raised("AttributeError")

ModelDumpToon(obj, isPatched) ==
    IF isPatched \/ HasMixin(obj.cls) THEN Serialize(obj)
    ELSE Raised("AttributeError")

\* cls.model_dump_toon_list(models): ToonMixin's class method, or the patched one
ModelDumpToonList(cls, models, isPatched) ==
    IF isPatched \/ HasMixin(cls) THEN Serialize(models)
    ELSE Raised("AttributeError")

\* the standalone model_dump_toon(model)
StandaloneModelDumpToon(model) == Serialize(model)

\* a models_dump_toon that starts a table one level deeper
StandaloneModelsDeeper(models) ==
    IF models.kind = "list" /\ AllModels(models.items)
    THEN Returned(SerializeListOfModels(models.items, 1))
    ELSE Serialize(models)

\* the standalone models_dump_toon(models)
StandaloneModelsDumpToon(models) == Serialize(models)

-----------------------------------------------------------------------------
(* The explored inputs.                                                    *)

Texts == UNION {[1..n -> Chars] : n \in 0..MaxStrLen}

Scalars ==
    {PyNone, PyBool(TRUE), PyBool(FALSE), PyInt(0), PyInt(42), PyInt(-7),
     PyNum(<<"9", "5", ".", "5">>),
     PyTemporal(<<"2", "0", "2", "4", "-", "0", "1", "-", "1", "5">>),
     PyOther(<<"(", "1", COMMA, SPACE, "2", ")">>)}
    \cup {PyStr(t) : t \in Texts}

\* the values put inside containers
Cells ==
    {PyNone, PyBool(TRUE), PyInt(42), PyStr(<<"a">>), PyStr(<<"a", COMMA, "a">>),
     PyStr(<<"a", NL, "a">>)}

SeqsUpTo(S, n) == UNION {[1..k -> S] : k \in 0..n}

\* key1, key2, ...
KeyName(i) == <<"k", "e", "y">> \o IntStr(i)

NestedModels ==
    {PyModel("One", <<c>>) : c \in Cells}
    \cup {PyModel(cls, <<c1, c2>>) :
            cls \in {"Pair", "Swap", "Unmixed"}, c1 \in Cells, c2 \in Cells}

\* the records put in lists of records
RowCells == {PyInt(1), PyStr(<<"a">>), PyStr(<<COMMA>>), PyList(<<PyStr(<<"a">>), PyInt(1)>>)}

RowModels ==
    {PyModel("Pair", <<c1, c2>>) : c1 \in RowCells, c2 \in RowCells}
    \cup {PyModel("Swap", <<PyStr(<<"a">>), PyInt(1)>>),
          PyModel("One", <<PyInt(1)>>),
          PyModel("Unmixed", <<PyInt(1), PyStr(<<"a">>)>>)}

ModelLists == {PyList(l) : l \in SeqsUpTo(RowModels, MaxRows)}

Dicts ==
    {PyDict([i \in 1..Len(vs) |-> KeyName(i)], vs) :
        vs \in SeqsUpTo(Cells \cup {PyDict(<<KeyName(1), KeyName(2)>>, <<PyInt(1), PyInt(2)>>),
                                    PyList(<<PyModel("One", <<PyInt(1)>>)>>)},
                        MaxItems)}

FlatLists ==
    {PyList(l) :
        l \in SeqsUpTo(Cells \cup {PyModel("Pair", <<PyInt(1), PyInt(2)>>),
                                   PyList(<<PyInt(1), PyInt(2)>>),
                                   PyDict(<<KeyName(1)>>, <<PyInt(1)>>)},
                       MaxItems)}

\* the metadata of test_dict_field_serialization
Metadata ==
    PyDict(<<KeyName(1), KeyName(2), KeyName(3)>>,
           <<PyStr(<<"v", "a", "l", "u", "e", "1">>), PyInt(42), PyBool(TRUE)>>)

FieldValues ==
    Scalars \cup NestedModels \cup ModelLists \cup Dicts \cup FlatLists
    \cup {Metadata, PyModel("One", <<PyModel("Pair", <<PyInt(1), PyInt(2)>>)>>)}

\* the records of the tests' metadata field
MetaModels ==
    {PyModel("Meta", <<v>>) :
        v \in {PyNone, Metadata, PyDict(<<KeyName(1)>>, <<PyStr(<<"a">>)>>)}}

\* what a caller passes to serialize: any value, bare, as the field of a
\* record, or as the only cell of a one-row list
Inputs ==
    FieldValues
    \cup {PyModel("One", <<v>>) : v \in FieldValues}
    \cup {PyList(<<PyModel("One", <<v>>)>>) : v \in FieldValues}
    \cup MetaModels

\* what a caller passes to the other entry points
EntryInputs ==
    NestedModels \cup {PyList(l) : l \in SeqsUpTo(RowModels, 1)}
    \cup {PyInt(42), PyList(<<PyInt(42)>>)}

-----------------------------------------------------------------------------
(* The program: a sequence of calls of the public API.  A call is made    *)
(* when no call is under way (called = "none"); its result stays in the   *)
(* state until the caller is done with it.                                 *)

\* the values the recorded sequences of calls are made of
HistInputs ==
    {PyModel("One", <<v>>) :
        v \in {PyNone, PyBool(TRUE), PyInt(1), PyStr(<<"n", "u", "l", "l">>),
               PyStr(<<"t", "r", "u", "e">>), PyStr(<<"1">>), PyStr(<<"a">>),
               PyStr(<<"a", SPACE>>)}}
    \cup {PyModel("Pair", <<PyInt(1), PyStr(<<"a">>)>>),
          PyModel("Unmixed", <<PyInt(1), PyStr(<<"a">>)>>),
          PyList(<<PyModel("Pair", <<PyInt(1), PyStr(<<"a">>)>>)>>),
          PyList(<<>>), PyInt(42)}

\* no call has been recorded
NoCall == [called |-> "none", data |-> PyNone, out |-> <<>>, raised |-> "none"]

Init ==
    /\ data = PyNone
    /\ out = <<>>
    /\ raised = "none"
    /\ called = "none"
    /\ patched = FALSE
    /\ last = NoCall

Return(name, value, ret) ==
    /\ called' = name
    /\ data' = value
    /\ out' = ret.text
    /\ raised' = ret.raised
    /\ UNCHANGED <<patched, last>>

\* ToonSerializer.serialize(value)
CallSerializeOn(S) ==
    /\ called = "none"
    /\ \E value \in S : Return("serialize", value, Serialize(value))

CallSerialize == CallSerializeOn(Inputs)

\* obj.model_dump_toon()
CallModelDumpToonOn(S) ==
    /\ called = "none"
    /\ \E obj \in {v \in S : IsModel(v)} :
          Return("model_dump_toon", obj, ModelDumpToon(obj, patched))

CallModelDumpToon == CallModelDumpToonOn(EntryInputs)

\* cls.model_dump_toon_list(models)
CallModelDumpToonListOn(S) ==
    /\ called = "none"
    /\ \E cls \in {"Pair", "Unmixed"}, models \in S :
          Return(IF HasMixin(cls) THEN "model_dump_toon_list" ELSE "unmixed_dump_toon_list",
                 models, ModelDumpToonList(cls, models, patched))

CallModelDumpToonList == CallModelDumpToonListOn(EntryInputs)

\* model_dump_toon(model)
CallStandaloneModelDumpToonOn(S) ==
    /\ called = "none"
    /\ \E model \in S :
          Return("standalone_model_dump_toon", model, StandaloneModelDumpToon(model))

CallStandaloneModelDumpToon == CallStandaloneModelDumpToonOn(EntryInputs)

\* models_dump_toon(models)
CallStandaloneModelsDumpToonOn(S) ==
    /\ called = "none"
    /\ \E models \in S :
          Return("standalone_models_dump_toon", models, StandaloneModelsDumpToon(models))

CallStandaloneModelsDumpToon == CallStandaloneModelsDumpToonOn(EntryInputs)

\* a patch_pydantic_toon that switches the registration off when it is on
PatchToggles ==
    /\ patched' = ~patched
    /\ UNCHANGED <<data, out, raised, called, last>>

\* patch_pydantic_toon()
PatchPydanticToon ==
    /\ patched' = TRUE
    /\ UNCHANGED <<data, out, raised, called, last>>

\* the caller is done with the returned text or the exception
Finish ==
    /\ called # "none"
    /\ called' = "none"
    /\ data' = PyNone
    /\ out' = <<>>
    /\ raised' = "none"
    /\ UNCHANGED <<patched, last>>

Next ==
    \/ CallSerialize
    \/ CallModelDumpToon
    \/ CallModelDumpToonList
    \/ CallStandaloneModelDumpToon
    \/ CallStandaloneModelsDumpToon
    \/ PatchPydanticToon
    \/ Finish

Spec == Init /\ [][Next]_vars

-----------------------------------------------------------------------------
(* The same program with the call last finished kept in `last`, on the     *)
(* values HistInputs.                                                      *)

HistSerialize == CallSerializeOn(HistInputs)

HistModelDumpToon == CallModelDumpToonOn(HistInputs)

HistModelDumpToonList == CallModelDumpToonListOn(HistInputs)

HistStandaloneModelDumpToon == CallStandaloneModelDumpToonOn(HistInputs)

HistStandaloneModelsDumpToon == CallStandaloneModelsDumpToonOn(HistInputs)

\* the caller is done with the result; the call is remembered
FinishRecorded ==
    /\ called # "none"
    /\ last' = [called |-> called, data |-> data, out |-> out, raised |-> raised]
    /\ called' = "none"
    /\ data' = PyNone
    /\ out' = <<>>
    /\ raised' = "none"
    /\ UNCHANGED patched

NextHistory ==
    \/ HistSerialize
    \/ HistModelDumpToon
    \/ HistModelDumpToonList
    \/ HistStandaloneModelDumpToon
    \/ HistStandaloneModelsDumpToon
    \/ PatchPydanticToon
    \/ FinishRecorded

SpecHistory == Init /\ [][NextHistory]_vars

-----------------------------------------------------------------------------
(* Reading the returned text.                                              *)

\* s.split(c)
RECURSIVE SplitOn(_, _)
SplitOn(s, c) ==
    IF ~Contains(s, c) THEN <<s>>
    ELSE LET i == CHOOSE j \in 1..Len(s) : s[j] = c /\ \A k \in 1..(j - 1) : s[k] # c
         IN <<SubSeq(s, 1, i - 1)>> \o SplitOn(SubSeq(s, i + 1, Len(s)), c)

OutLines == SplitOn(out, NL)

StartsWith(s, prefix) ==
    Len(s) >= Len(prefix) /\ SubSeq(s, 1, Len(prefix)) = prefix

\* the cells of a line, split on the commas outside double-quoted segments;
\* inside a segment a backslash escapes the next character
RECURSIVE SplitCellsFrom(_, _, _, _)
SplitCellsFrom(s, cur, inQuote, escaped) ==
    IF s = <<>> THEN <<cur>>
    ELSE LET c == Head(s)
             rest == Tail(s)
         IN IF inQuote
            THEN IF escaped THEN SplitCellsFrom(rest, Append(cur, c), TRUE, FALSE)
                 ELSE IF c = BSLASH THEN SplitCellsFrom(rest, Append(cur, c), TRUE, TRUE)
                 ELSE IF c = QUOTE THEN SplitCellsFrom(rest, Append(cur, c), FALSE, FALSE)
                 ELSE SplitCellsFrom(rest, Append(cur, c), TRUE, FALSE)
            ELSE IF c = COMMA THEN <<cur>> \o SplitCellsFrom(rest, <<>>, FALSE, FALSE)
                 ELSE IF c = QUOTE THEN SplitCellsFrom(rest, Append(cur, c), TRUE, FALSE)
                 ELSE SplitCellsFrom(rest, Append(cur, c), FALSE, FALSE)

SplitCells(line) == SplitCellsFrom(line, <<>>, FALSE, FALSE)

UnquotedCommas(line) == Len(SplitCells(line)) - 1

\* a call that reached ToonSerializer.serialize has returned or raised
Encoded == called # "none" /\ raised # "AttributeError"

\* the input is a non-empty list of records
IsRecordList == data.kind = "list" /\ data.items # <<>> /\ AllModels(data.items)

\* ... that all have the same field-name sequence
IsHomogeneous ==
    /\ IsRecordList
    /\ \A i \in 1..Len(data.items) :
          ModelFields(data.items[i].cls) = ModelFields(data.items[1].cls)

\* [k]{f1,...,fm}:
ExpectedHeader(k, fields) ==
    <<"[">> \o IntStr(k) \o <<"]", "{">> \o Join(<<COMMA>>, fields) \o <<"}", ":">>

-----------------------------------------------------------------------------
(* C1 - C4: the tabular form and the record form.                          *)

\* C1: for a non-empty list of k records sharing the fields f1..fm the text is
\* the header [k]{f1,...,fm}: followed by exactly k row lines, one per element
\* in list order, and each row splits on its separator commas into exactly m
\* values, the element's field values in the order f1..fm (each as the text
\* _serialize_value gives for the dumped value).
C1_HeaderAndRows ==
    (Encoded /\ IsHomogeneous) =>
        LET k == Len(data.items)
            fields == ModelFields(data.items[1].cls)
        IN /\ raised = "none"
           /\ Len(OutLines) = k + 1
           /\ OutLines[1] = ExpectedHeader(k, fields)
           /\ \A i \in 1..k :
                LET line == OutLines[i + 1]
                    cells == SplitCells(SubSeq(line, 3, Len(line)))
                IN /\ StartsWith(line, <<SPACE, SPACE>>)
                   /\ Len(cells) = Len(fields)
                   /\ \A j \in 1..Len(fields) :
                        cells[j] = SerializeValue(ModelDump(data.items[i].vals[j]), 0)

\* C2: in a tabular row every field value containing a comma is quoted, so each
\* row of a list of records with m fields has exactly m-1 commas outside
\* double-quoted segments, whatever the kind of the field values (stated of
\* the outputs whose rows are one line each).
C2_RowCommas ==
    (Encoded /\ IsHomogeneous /\ raised = "none"
        /\ Len(OutLines) = Len(data.items) + 1) =>
        \A i \in 2..Len(OutLines) :
            UnquotedCommas(OutLines[i]) = Len(ModelFields(data.items[1].cls)) - 1

\* C3: every row of a tabular encoding is one line: a list of N records gives
\* exactly N+1 lines, whatever the field values are.
C3_OneLinePerRow ==
    (Encoded /\ IsRecordList) =>
        (raised = "none" /\ Len(OutLines) = Len(data.items) + 1)

\* the unindented lines of the returned text
TopLevelLines == SelectSeq(OutLines, LAMBDA line : ~StartsWith(line, <<SPACE>>))

\* C4: encoding a record with fields f1..fn at the top level gives exactly n
\* unindented lines, the i-th beginning with fi and a colon, whatever the field
\* values are.
C4_TopLevelLines ==
    (Encoded /\ IsModel(data)) =>
        LET fields == ModelFields(data.cls)
        IN /\ raised = "none"
           /\ Len(TopLevelLines) = Len(fields)
           /\ \A i \in 1..Len(fields) :
                StartsWith(TopLevelLines[i], fields[i] \o <<":">>)

-----------------------------------------------------------------------------
(* C5, C6: the text of a str value.                                        *)

\* no comma, no newline, no whitespace at either end
NoTrigger(s) ==
    /\ \A i \in 1..Len(s) : s[i] # COMMA /\ s[i] # NL
    /\ s = <<>> \/ (s[1] \notin Whitespace /\ s[Len(s)] \notin Whitespace)

\* the input is a record of class One holding a str
IsTextField == IsModel(data) /\ data.cls = "One" /\ data.vals[1].kind = "str"

\* the input is a one-row list whose only cell is a str
IsTextCell ==
    /\ data.kind = "list" /\ Len(data.items) = 1
    /\ IsModel(data.items[1]) /\ data.items[1].cls = "One"
    /\ data.items[1].vals[1].kind = "str"

\* the text before the only cell of a one-row list of One
CellPrefix == ExpectedHeader(1, <<f_v>>) \o <<NL, SPACE, SPACE>>

\* C5: a text is emitted unchanged and unquoted iff it has no comma, no newline
\* and no leading or trailing whitespace, and encode(string) == string for
\* every such string.
C5_EncodeIsIdentity ==
    (Encoded /\ data.kind = "str" /\ NoTrigger(data.s)) =>
        (raised = "none" /\ out = data.s)

\* C5, amended: a text held in a record field or in a tabular cell is emitted
\* unchanged and unquoted iff it has no comma, no newline and no leading or
\* trailing whitespace; a bare text given to serialize raises ValueError.
C5_PlainTextUnchanged ==
    /\ (Encoded /\ IsTextField) =>
          /\ raised = "none"
          /\ (out = f_v \o <<":", SPACE>> \o data.vals[1].s) <=> NoTrigger(data.vals[1].s)
    /\ (Encoded /\ IsTextCell) =>
          /\ raised = "none"
          /\ (out = CellPrefix \o data.items[1].vals[1].s)
                <=> NoTrigger(data.items[1].vals[1].s)
    /\ (Encoded /\ data.kind = "str") => (raised = "ValueError" /\ out = <<>>)

\* a text with a double quote and a backslash and no trigger was emitted as is
C5_Witness ==
    /\ Encoded /\ IsTextField
    /\ data.vals[1].s = <<QUOTE, "a", BSLASH>>
    /\ out = f_v \o <<":", SPACE, QUOTE, "a", BSLASH>>

\* each backslash doubled, each double quote preceded by a backslash, the whole
\* wrapped in one pair of double quotes
QuotedForm(s) ==
    <<QUOTE>>
    \o Concat([i \in 1..Len(s) |->
                 IF s[i] = BSLASH THEN <<BSLASH, BSLASH>>
                 ELSE IF s[i] = QUOTE THEN <<BSLASH, QUOTE>>
                 ELSE <<s[i]>>])
    \o <<QUOTE>>

\* C6: a text containing a comma is encoded as the text with backslashes
\* doubled and double quotes escaped, wrapped in double quotes, the comma kept
\* as it is, both as a record field and as a tabular cell.
C6_CommaTextQuoted ==
    /\ (Encoded /\ IsTextField /\ Contains(data.vals[1].s, COMMA)) =>
          /\ raised = "none"
          /\ out \in {f_v \o <<":", SPACE>> \o QuotedForm(data.vals[1].s),
                      f_v \o <<":">> \o QuotedForm(data.vals[1].s)}
    /\ (Encoded /\ IsTextCell /\ Contains(data.items[1].vals[1].s, COMMA)) =>
          /\ raised = "none"
          /\ out = CellPrefix \o QuotedForm(data.items[1].vals[1].s)

\* the field text \", was encoded as "\\\","
C6_Witness ==
    /\ Encoded /\ IsTextField
    /\ data.vals[1].s = <<BSLASH, QUOTE, COMMA>>
    /\ out = f_v \o <<":", SPACE, QUOTE, BSLASH, BSLASH, BSLASH, QUOTE, COMMA, QUOTE>>

-----------------------------------------------------------------------------
(* C7 - C9: empty lists and errors.                                        *)

\* C7: an empty list encodes to exactly []: at the top level with no header, no
\* indentation and no error, and in a record field as the line fieldName: [].
C7_EmptyList ==
    /\ (Encoded /\ data.kind = "list" /\ data.items = <<>>) =>
          (raised = "none" /\ out = <<"[", "]">>)
    /\ (Encoded /\ IsModel(data) /\ data.cls = "One"
            /\ data.vals[1].kind = "list" /\ data.vals[1].items = <<>>) =>
          (raised = "none" /\ out = f_v \o <<":", SPACE, "[", "]">>)

\* serialize was given the empty list and returned []
C7_Witness ==
    /\ called = "serialize" /\ data.kind = "list" /\ data.items = <<>>
    /\ raised = "none" /\ out = <<"[", "]">>

\* some element of the list is not a record
HasNonModel(items) == \E i \in 1..Len(items) : ~IsModel(items[i])

\* C8: a top-level list with at least one element that is not a record raises
\* ValueError and returns no text, wherever that element is and however many
\* records the list holds; the same list in a record field does not fail.
C8_MixedListRaises ==
    /\ (Encoded /\ data.kind = "list" /\ HasNonModel(data.items)) =>
          (raised = "ValueError" /\ out = <<>>)
    /\ (Encoded /\ IsModel(data) /\ data.cls = "One"
            /\ data.vals[1].kind = "list" /\ HasNonModel(data.vals[1].items)) =>
          (raised = "none" /\ out # <<>>)

\* a list of a record followed by a value that is no record was refused
C8_Witness ==
    /\ Encoded /\ data.kind = "list" /\ Len(data.items) = 2
    /\ IsModel(data.items[1]) /\ ~IsModel(data.items[2])
    /\ raised = "ValueError"

\* C9: a top-level list containing an element that is not a record is the only
\* input for which encode raises; every other input returns text.
C9_OnlyMixedListRaises ==
    Encoded => (raised # "none" <=> (data.kind = "list" /\ HasNonModel(data.items)))

\* C9, amended: encode raises, and then ValueError, exactly when its input is a
\* list containing an element that is not a record or is neither a list nor a
\* record; for a record or a list of records it returns text, whatever leaf
\* values they hold.
C9_RaisesExactly ==
    Encoded =>
        /\ raised \in {"none", "ValueError"}
        /\ raised = "ValueError" <=>
              IF data.kind = "list" THEN HasNonModel(data.items) ELSE ~IsModel(data)

\* a bare mapping was refused
C9_Witness == Encoded /\ data.kind = "dict" /\ raised = "ValueError"

-----------------------------------------------------------------------------
(* C10: a mapping in a record field.                                       *)

\* the value is a scalar whose text is one line
IsOneLineScalar(value) ==
    /\ value.kind \in {"none", "bool", "int", "num", "temporal", "str"}
    /\ ~Contains(SerializeValue(value, 0), NL)

\* the input is a one-field record holding a non-empty mapping of such scalars
IsMappingField ==
    /\ IsModel(data) /\ Len(ModelFields(data.cls)) = 1
    /\ data.vals[1].kind = "dict" /\ data.vals[1].keys # <<>>
    /\ \A i \in 1..Len(data.vals[1].vals) : IsOneLineScalar(data.vals[1].vals[i])

\* C10: a record field holding a mapping is encoded as the line fieldName:
\* followed by one line "key: value" per key, in the mapping's order, each
\* indented by four spaces; metadata {key1: "value1", key2: 42, key3: true}
\* gives exactly the lines metadata:, key1: value1, key2: 42, key3: true.
C10_MappingBlock ==
    /\ (Encoded /\ IsMappingField) =>
          LET d == data.vals[1] IN
          out = Join(<<NL>>,
                     <<ModelFields(data.cls)[1] \o <<":">>>>
                     \o [i \in 1..Len(d.keys) |->
                           <<SPACE, SPACE, SPACE, SPACE>> \o d.keys[i] \o <<":", SPACE>>
                           \o SerializeValue(d.vals[i], 0)])
    /\ (Encoded /\ data = PyModel("Meta", <<Metadata>>)) =>
          out = Join(<<NL>>,
                     << f_metadata \o <<":">>,
                        <<SPACE, SPACE, SPACE, SPACE, "k", "e", "y", "1", ":", SPACE,
                          "v", "a", "l", "u", "e", "1">>,
                        <<SPACE, SPACE, SPACE, SPACE, "k", "e", "y", "2", ":", SPACE,
                          "4", "2">>,
                        <<SPACE, SPACE, SPACE, SPACE, "k", "e", "y", "3", ":", SPACE,
                          "t", "r", "u", "e">> >>)

-----------------------------------------------------------------------------
(* C11, C12: None and booleans.                                            *)

NullWord == <<"n", "u", "l", "l">>

BoolWord(b) == IF b THEN <<"t", "r", "u", "e">> ELSE <<"f", "a", "l", "s", "e">>

\* the input is a one-row list of a record of class One
IsOneCell ==
    /\ data.kind = "list" /\ Len(data.items) = 1
    /\ IsModel(data.items[1]) /\ data.items[1].cls = "One"

\* C11: None renders as null: a record field holding None gives the line
\* fieldName: null and a None cell of a tabular row gives null, never the empty
\* string and never None.
C11_NoneIsNull ==
    /\ (Encoded /\ IsModel(data)) =>
          \A i \in 1..Len(data.vals) :
              data.vals[i] = PyNone =>
                  /\ raised = "none"
                  /\ \E l \in 1..Len(OutLines) :
                        OutLines[l] = ModelFields(data.cls)[i] \o <<":", SPACE>> \o NullWord
    /\ (Encoded /\ IsOneCell /\ data.items[1].vals[1] = PyNone) =>
          (raised = "none" /\ out = CellPrefix \o NullWord)

\* the record with metadata = None gave the line metadata: null
C11_Witness ==
    /\ Encoded /\ data = PyModel("Meta", <<PyNone>>)
    /\ out = f_metadata \o <<":", SPACE>> \o NullWord

\* None, a bool or an int
IsSimple(value) == value.kind \in {"none", "bool", "int"}

SimpleWord(value) ==
    CASE value.kind = "none" -> NullWord
      [] value.kind = "bool" -> BoolWord(value.b)
      [] value.kind = "int" -> IntStr(value.n)

\* a non-empty sequence of simple values, one of them a bool
HasBoolAmongSimple(values) ==
    /\ values # <<>>
    /\ \A i \in 1..Len(values) : IsSimple(values[i])
    /\ \E i \in 1..Len(values) : values[i].kind = "bool"

IsOneField == IsModel(data) /\ data.cls = "One"

\* C12: a boolean renders as true or false, never as 1, 0, True or False, as a
\* record field, a tabular cell, an element of a flat list and a value of a
\* mapping.
C12_BoolWords ==
    /\ (Encoded /\ IsOneField /\ data.vals[1].kind = "bool") =>
          out = f_v \o <<":", SPACE>> \o BoolWord(data.vals[1].b)
    /\ (Encoded /\ IsOneCell /\ data.items[1].vals[1].kind = "bool") =>
          out = CellPrefix \o BoolWord(data.items[1].vals[1].b)
    /\ (Encoded /\ IsOneField /\ data.vals[1].kind = "list"
            /\ HasBoolAmongSimple(data.vals[1].items)) =>
          LET items == data.vals[1].items IN
          out = f_v \o <<":", SPACE, "[">>
                \o Join(<<COMMA>>, [i \in 1..Len(items) |-> SimpleWord(items[i])])
                \o <<"]">>
    /\ (Encoded /\ IsOneField /\ data.vals[1].kind = "dict"
            /\ HasBoolAmongSimple(data.vals[1].vals)) =>
          LET d == data.vals[1] IN
          out = f_v \o <<":">> \o (IF Len(d.keys) = 1 THEN <<SPACE>> ELSE <<>>)
                \o Join(<<NL>>, [i \in 1..Len(d.keys) |->
                                   <<SPACE, SPACE, SPACE, SPACE>> \o d.keys[i]
                                   \o <<":", SPACE>> \o SimpleWord(d.vals[i])])

\* the field holding [True, 42] gave v: [true,42]
C12_Witness ==
    /\ Encoded /\ IsOneField
    /\ data.vals[1] = PyList(<<PyBool(TRUE), PyInt(42)>>)
    /\ out = f_v \o <<":", SPACE, "[", "t", "r", "u", "e", COMMA, "4", "2", "]">>


-----------------------------------------------------------------------------
(* Two calls, one after the other: `last` is the call finished before the  *)
(* present one.                                                            *)

\* both the recorded call and the present one encoded something
TwoEncodes ==
    /\ Encoded
    /\ last.called # "none"
    /\ last.raised # "AttributeError"

\* a record of class One holding a scalar (null, boolean, integer, text)
IsScalarRecord(value) ==
    /\ IsModel(value)
    /\ value.cls = "One"
    /\ value.vals[1].kind \in {"none", "bool", "int", "str"}

\* C13: two distinct scalar values placed in the same field of otherwise
\* identical records yield distinct encodings (None and the text `null`, True
\* and the text `true`, 1 and the text `1`, two different texts).
C13_ScalarsLossless ==
    (/\ TwoEncodes
     /\ IsScalarRecord(data)
     /\ IsScalarRecord(last.data)
     /\ data # last.data)
    => out # last.out


MethodCalled ==
    called' \in {"model_dump_toon", "model_dump_toon_list", "unmixed_dump_toon_list"}

\* C15: the registration is one-way and idempotent: no step returns to the
\* unregistered state, once registered every record type (with or without
\* the mixin) has the encode methods, the first patch_pydantic_toon changes
\* nothing but the registration and a later one changes nothing at all.
C15_PatchOneWay ==
    [][/\ patched => patched'
       /\ (patched /\ called = "none" /\ MethodCalled) => raised' # "AttributeError"
       /\ (~patched /\ patched') => UNCHANGED <<data, out, raised, called, last>>
       /\ (patched /\ PatchPydanticToon) => UNCHANGED vars]_vars

\* after the patch a model of a class without the mixin is encoded by its method
C15_Witness ==
    /\ patched
    /\ called = "model_dump_toon"
    /\ data = PyModel("Unmixed", <<PyInt(42), PyStr(<<"a">>)>>)
    /\ raised = "none"
    /\ out = <<"i", "d", ":", SPACE, "4", "2", NL, "n", "a", "m", "e", ":", SPACE, "a">>


\* C16: all public entry points agree: the mixin's methods, the standalone
\* functions and the methods installed by patch_pydantic_toon return what
\* ToonSerializer.serialize returns for the same record or list, also for a
\* class that has both the mixin and the patch.
C16_EntryPointsAgree ==
    Encoded => [raised |-> raised, text |-> out] = Serialize(data)

\* a class with the mixin and the patch encodes a list by its class method
C16_Witness ==
    /\ patched
    /\ called = "model_dump_toon_list"
    /\ data = PyList(<<PyModel("Pair", <<PyInt(1), PyStr(<<"a">>)>>)>>)
    /\ out = <<"[", "1", "]", "{", "i", "d", COMMA, "n", "a", "m", "e", "}", ":", NL,
               SPACE, SPACE, "1", COMMA, "a">>


-----------------------------------------------------------------------------
(* C17, C18: the lines of a record and their indentation.                  *)

\* C17: when the encoded value of a field spans several lines the field is the
\* line fieldName: with nothing after the colon, followed by the child's
\* lines; otherwise it is the single line fieldName: value with one space
\* after the colon.
C17_MultiLineFieldAlone ==
    (Encoded /\ IsOneField) =>
        LET child == SerializeValue(data.vals[1], 1)
        IN /\ raised = "none"
           /\ IF Contains(child, NL)
              THEN Len(OutLines) >= 2 /\ OutLines[1] = f_v \o <<":">>
              ELSE out = f_v \o <<":", SPACE>> \o child


\* the number of spaces a line starts with
RECURSIVE LeadingSpaces(_)
LeadingSpaces(line) ==
    IF line # <<>> /\ Head(line) = SPACE THEN 1 + LeadingSpaces(Tail(line)) ELSE 0

\* the lines from..Len(OutLines) all start with exactly n spaces
LinesIndented(from, n) ==
    \A i \in from..Len(OutLines) : LeadingSpaces(OutLines[i]) = n

\* a record whose field values are scalars of one line
IsFlatRecord(value) ==
    /\ IsModel(value)
    /\ \A i \in 1..Len(value.vals) : IsOneLineScalar(value.vals[i])

\* C18: indentation is two spaces per nesting level on every line: at level 0
\* a field line has no leading space, the header of a list of records held in
\* a field has 2 and its rows 4, each field line of a nested record has 2; a
\* top-level table has a header without leading space and rows with exactly 2.
C18_TwoSpacesPerLevel ==
    /\ (Encoded /\ IsOneField /\ IsOneLineScalar(data.vals[1])) =>
          Len(OutLines) = 1 /\ LinesIndented(1, 0)
    /\ (Encoded /\ IsOneField /\ data.vals[1].kind = "list"
            /\ data.vals[1].items # <<>> /\ AllModels(data.vals[1].items)) =>
          /\ Len(OutLines) >= 3
          /\ LeadingSpaces(OutLines[1]) = 0
          /\ LeadingSpaces(OutLines[2]) = 2
          /\ LinesIndented(3, 4)
    /\ (Encoded /\ IsOneField /\ IsFlatRecord(data.vals[1])) =>
          /\ Len(OutLines) = 1 + Len(data.vals[1].vals)
          /\ OutLines[1] = f_v \o <<":">>
          /\ LinesIndented(2, 2)
    /\ (Encoded /\ IsRecordList) =>
          /\ Len(OutLines) >= 2
          /\ LeadingSpaces(OutLines[1]) = 0
          /\ LinesIndented(2, 2)


-----------------------------------------------------------------------------
(* C19, C20: lists.                                                        *)

\* the records of the list do not all have the same field-name sequence
Heterogeneous(items) ==
    /\ items # <<>>
    /\ AllModels(items)
    /\ \E i \in 1..Len(items) : ModelFields(items[i].cls) # ModelFields(items[1].cls)

\* the line is the header of a table of n rows with these columns, indented or not
IsHeaderOf(line, n, fields) ==
    \E level \in 0..1 : line = Indent(level) \o ExpectedHeader(n, fields)

\* C19: the tabular form is used only for a homogeneous list: a list of
\* records whose field-name sequences differ is not encoded as a table with
\* the first element's columns, at the top level or in a field.
C19_TableOnlyHomogeneous ==
    /\ (Encoded /\ data.kind = "list" /\ Heterogeneous(data.items)) =>
          ~(raised = "none"
            /\ IsHeaderOf(OutLines[1], Len(data.items), ModelFields(data.items[1].cls)))
    /\ (Encoded /\ IsOneField /\ data.vals[1].kind = "list"
            /\ Heterogeneous(data.vals[1].items)) =>
          ~(raised = "none" /\ Len(OutLines) >= 2
            /\ IsHeaderOf(OutLines[2], Len(data.vals[1].items),
                          ModelFields(data.vals[1].items[1].cls)))


\* the input is a one-field record holding a non-empty list that is not a
\* list of records
IsFlatListField ==
    /\ IsOneField
    /\ data.vals[1].kind = "list"
    /\ data.vals[1].items # <<>>
    /\ ~AllModels(data.vals[1].items)

\* C20: a non-empty list in a field whose elements are not all records is
\* encoded as the single line [v1,...,vn]: the field is one line, the list is
\* in brackets after fieldName: and the text holds no newline, whatever the
\* elements are.
C20_FlatListOneLine ==
    (Encoded /\ IsFlatListField) =>
        /\ raised = "none"
        /\ ~Contains(out, NL)
        /\ StartsWith(out, f_v \o <<":", SPACE, "[">>)
        /\ out[Len(out)] = "]"


-----------------------------------------------------------------------------
(* C21: reading a quoted text back.                                        *)

\* the number of backslashes standing right before position i
RECURSIVE BackslashesBefore(_, _)
BackslashesBefore(s, i) ==
    IF i > 1 /\ s[i - 1] = BSLASH THEN 1 + BackslashesBefore(s, i - 1) ELSE 0

\* the first double quote after the opening one that is preceded by an even
\* number of backslashes; 0 when there is none
ClosingQuote(s) ==
    LET closers == {i \in 2..Len(s) : s[i] = QUOTE /\ BackslashesBefore(s, i) % 2 = 0}
    IN IF closers = {} THEN 0
       ELSE CHOOSE i \in closers : \A j \in closers : i <= j

\* \\ read as \ and \" read as ", from left to right
RECURSIVE Unescape(_)
Unescape(body) ==
    IF body = <<>> THEN <<>>
    ELSE IF Len(body) >= 2 /\ body[1] = BSLASH /\ body[2] \in {BSLASH, QUOTE}
         THEN <<body[2]>> \o Unescape(SubSeq(body, 3, Len(body)))
         ELSE <<body[1]>> \o Unescape(Tail(body))

\* the text the call was given, in a field or in a cell
TextGiven == IF IsTextField THEN data.vals[1].s ELSE data.items[1].vals[1].s

\* what the call wrote for it: the returned text after `v: `, `v:` or the
\* header and the row indent
TextWritten ==
    IF IsTextCell THEN SubSeq(out, Len(CellPrefix) + 1, Len(out))
    ELSE IF Len(out) >= 3 /\ out[3] = SPACE THEN SubSeq(out, 4, Len(out))
    ELSE SubSeq(out, 3, Len(out))

\* the texts shorter than the longest explored ones
ShorterTexts == UNION {[1..n -> Chars] : n \in 0..(MaxStrLen - 1)}

\* the text takes the quoting path
TakesQuotingPath == (IsTextField \/ IsTextCell) /\ ~NoTrigger(TextGiven)

\* C21: the quoted form is unambiguous and reversible: every double quote of
\* the text stands in the body after an odd number of backslashes, so the
\* first double quote after an even number of them is the closing one;
\* reading \\ as \ and \" as " from left to right gives back the text; and no
\* other text on the quoting path has the same quoted form (compared one by
\* one with the shorter texts; two texts that both read back as themselves
\* cannot share a form).
C21_QuotedFormReversible ==
    (Encoded /\ TakesQuotingPath) =>
        LET w == TextWritten
            body == SubSeq(w, 2, Len(w) - 1)
        IN /\ raised = "none"
           /\ Len(w) >= 2 /\ w[1] = QUOTE
           /\ \A i \in 1..Len(body) :
                 body[i] = QUOTE => BackslashesBefore(body, i) % 2 = 1
           /\ ClosingQuote(w) = Len(w)
           /\ Unescape(body) = TextGiven
           /\ \A t \in ShorterTexts :
                 (~NoTrigger(t) /\ t # TextGiven) => SerializeStr(t) # w

\* a text with a backslash, a double quote and a comma, in a cell
C21_Witness ==
    /\ Encoded /\ IsTextCell
    /\ data.items[1].vals[1].s = <<BSLASH, QUOTE, COMMA>>
    /\ out = CellPrefix \o <<QUOTE, BSLASH, BSLASH, BSLASH, QUOTE, COMMA, QUOTE>>

=============================================================================
